---- MODULE Spec2Model ----
(***************************************************************************)
(* State-machine model of ranger's curses front end, ranger/gui/ui.py      *)
(* (class UI): the terminal session (initialize / suspend / set_load_mode  *)
(* / destroy), the input pump handle_input with its 8-read lookahead, and  *)
(* the key router handle_key.                                              *)
(*                                                                         *)
(* The program is single threaded.  handle_input is split at the points    *)
(* where it calls handle_key, because a command run by handle_key may call *)
(* back into the UI (set_load_mode, suspend, initialize, destroy) or raise *)
(* while handle_input is still on the stack.                               *)
(***************************************************************************)
EXTENDS Integers, Sequences, FiniteSets, TLC

VARIABLES
    ui,                 \* the UI object and the curses state it drives
    curs_ok,            \* whether the terminal supports curses.curs_set()
    queue,              \* codes the device holds, ready for win.getch()
    kbuf,               \* self.env.keybuffer
    pc,                 \* "idle", or "replay" inside handle_input's key loop
    keys,               \* handle_input's local list `keys`
    idx,                \* position of the replay loop in `keys`
    lookahead,          \* TRUE when handle_input took the (27, 195) branch
    previous_load_mode, \* handle_input's local previous_load_mode
    hi,                 \* observation of the current/last handle_input call
    hk,                 \* observation of the last handle_key call
    suspend_streak,     \* consecutive top-level suspend() calls just made
    env,                \* what draw() reads: fm.env.cwd.path, env.home_path
                        \* and self._draw_title
    frame,              \* observation of the current/last redraw() call
    mouseq,             \* mouse reports the device holds for curses.getmouse()
    hm                  \* observation of the last handle_mouse call

vars == <<ui, curs_ok, queue, kbuf, pc, keys, idx, lookahead,
          previous_load_mode, hi, hk, suspend_streak, env, frame, mouseq, hm>>

----------------------------------------------------------------------------
(* Bounds of the model *)

\* longest current path, in characters
MaxPathLen == 6
\* longest home path, in characters
MaxHomeLen == 2
\* largest settings.shorten_title
MaxDepth == 2
\* mouse clicks the user makes in one behaviour
MaxClicks == 2
\* longest input stream the user types in one behaviour (the burst apart)
MaxStream == 2
\* follow-up codes of the burst stream (a lead code and Burst more codes)
Burst == 20
\* initialize() calls in one behaviour
MaxInitCalls == 2

(* Program constants *)

\* range(8): probe reads after a lead code
Lookahead == 8
\* curses.halfdelay(20)
HalfDelayTenths == 20
\* the Escape / Alt lead code
KeyEscape == 27
\* lead byte of a two-byte UTF-8 character
KeyUnicode == 195
\* what win.getch() returns when no key is available
NoKey == -1

\* curses.KEY_MOUSE, the code curses.ungetmouse() pushes back
KeyMouse == 409

\* line 160: key in (27, 195)
LeadCodes == {KeyEscape, KeyUnicode}
\* what the user can type key by key: NUL, Escape and 'x' (120)
TypedCodes == {0, KeyEscape, 120}

\* a two-byte UTF-8 character (195 169), whose bytes arrive together
Utf8Char == <<KeyUnicode, 169>>

\* Escape followed by Burst immediately available 'x'
BurstStream == <<KeyEscape>> \o [i \in 1..Burst |-> 120]

\* the input streams: every stream of at most MaxStream typed codes, and
\* the two-byte character
Streams == UNION { [1..n -> TypedCodes] : n \in 0..MaxStream } \cup {Utf8Char}

----------------------------------------------------------------------------
(* The terminal session *)

\* State after UI.__init__: curses.initscr() leaves the terminal cooked,
\* echoing, cursor visible, no keypad, no mouse reporting, blocking reads.
ui_init ==
    [ load_mode |-> FALSE, is_set_up |-> FALSE,
      keypad |-> FALSE, mode |-> "cooked", tenths |-> 0, echo |-> TRUE,
      cursor |-> 1, mouse |-> FALSE, endwin |-> FALSE, nodelay |-> FALSE,
      destroyed |-> FALSE, setup_calls |-> 0, initialize_calls |-> 0 ]

\* curses.curs_set(v) inside try/except: a terminal without the capability
\* raises and the error is swallowed.
curs_set(u, v) == IF curs_ok THEN [u EXCEPT !.cursor = v] ELSE u

\* setup() run on every initialize(), the latch never consulted
setup_always(u) == [u EXCEPT !.is_set_up = TRUE, !.setup_calls = @ + 1]

\* lines 80-82: the one-time setup() hook behind the latch is_set_up
setup_once(u) ==
    IF ~u.is_set_up
    THEN [u EXCEPT !.is_set_up = TRUE, !.setup_calls = @ + 1]
    ELSE u

\* UI.initialize, its effect on the UI object and the terminal;
\* show_cursor is the value of self.settings.show_cursor at the call
initialize(u, show_cursor) ==
    LET a == [u EXCEPT !.keypad = TRUE, !.load_mode = FALSE,
                       !.mode = "halfdelay", !.tenths = HalfDelayTenths,
                       !.echo = FALSE]
        b == curs_set(a, IF show_cursor THEN 1 ELSE 0)
        c == [b EXCEPT !.mouse = TRUE, !.destroyed = FALSE,
                       !.initialize_calls = @ + 1]
    IN  setup_once(c)

\* a suspend() that flips the echo instead of switching it on
suspend_flip(u) ==
    LET a == [u EXCEPT !.keypad = FALSE, !.mode = "cooked", !.tenths = 0,
                       !.echo = ~u.echo]
        b == curs_set(a, 1)
    IN  [b EXCEPT !.mouse = FALSE, !.endwin = TRUE]

\* UI.suspend
suspend(u) ==
    LET a == [u EXCEPT !.keypad = FALSE, !.mode = "cooked", !.tenths = 0,
                       !.echo = TRUE]
        b == curs_set(a, 1)
    IN  [b EXCEPT !.mouse = FALSE, !.endwin = TRUE]

\* a set_load_mode() that records the flag only when it enables the mode
set_load_mode_stale(u, boolean) ==
    IF boolean # u.load_mode
    THEN IF boolean
         THEN [u EXCEPT !.load_mode = TRUE, !.mode = "cbreak", !.tenths = 0,
                        !.nodelay = TRUE]
         ELSE [u EXCEPT !.nodelay = FALSE,
                        !.mode = "halfdelay", !.tenths = HalfDelayTenths]
    ELSE u

\* UI.set_load_mode
set_load_mode(u, boolean) ==
    IF boolean # u.load_mode
    THEN IF boolean
         THEN [u EXCEPT !.load_mode = TRUE, !.mode = "cbreak", !.tenths = 0,
                        !.nodelay = TRUE]
         ELSE [u EXCEPT !.load_mode = FALSE, !.nodelay = FALSE,
                        !.mode = "halfdelay", !.tenths = HalfDelayTenths]
    ELSE u

\* a lookahead that puts the load mode back before the replay
enter_and_leave_lookahead(u) == set_load_mode(set_load_mode(u, TRUE), u.load_mode)

\* line 163: handle_input forces the load mode on for the lookahead; it
\* stays forced until line 170
enter_lookahead(u) == set_load_mode(u, TRUE)

\* line 170: handle_input puts the load mode back
leave_lookahead(u, previous) == set_load_mode(u, previous)

\* UI.destroy; destroyed marks the time from destroy() to the next
\* initialize()
destroy(u) == [suspend(u) EXCEPT !.destroyed = TRUE]

\* the terminal-mode part of the state
TermMode(u) == <<u.keypad, u.mode, u.tenths, u.echo, u.cursor, u.mouse, u.endwin>>

----------------------------------------------------------------------------
(* Reading the device *)

\* win.getch(): the next queued code, or -1 when none is ready
getch(q) == IF q = <<>> THEN NoKey ELSE Head(q)
AfterRead(q) == IF q = <<>> THEN q ELSE Tail(q)

\* line 159: a read on an empty queue returns (-1) after the halfdelay
\* timeout or at once in nodelay mode, and waits for a key otherwise
ReadReturns(u, q) == q # <<>> \/ u.mode = "halfdelay" \/ u.nodelay

\* how a read on an empty queue behaves: curses.halfdelay (lines 61, 108)
\* makes it give up after the timeout, also on a window in nodelay mode;
\* without it the read returns at once in nodelay mode (line 105) and
\* waits for a key otherwise
ReadMode(u) ==
    IF u.mode = "halfdelay" THEN "timeout"
    ELSE IF u.nodelay THEN "nonblocking"
    ELSE "blocking"

\* the session is active: initialize() was called and neither suspend()
\* nor destroy() since; the keypad is on exactly then (lines 56, 87)
Active(u) == u.keypad /\ ~u.destroyed

\* a lookahead that reads for as long as codes are available
RECURSIVE ProbeReadsAll(_, _)
ProbeReadsAll(q, n) ==
    IF q = <<>> THEN <<getch(q)>> ELSE <<getch(q)>> \o ProbeReadsAll(AfterRead(q), n)

\* lines 164-165: the results of n successive reads
RECURSIVE ProbeReads(_, _)
ProbeReads(q, n) ==
    IF n = 0 THEN <<>> ELSE <<getch(q)>> \o ProbeReads(AfterRead(q), n - 1)

RECURSIVE ProbeRest(_, _)
ProbeRest(q, n) == IF n = 0 THEN q ELSE ProbeRest(AfterRead(q), n - 1)

\* a collection that keeps every read result, the sentinel too
CollectedAll(rs) == rs

\* a collection that also drops the zero code (`if getkey > 0`)
RECURSIVE CollectedPositive(_)
CollectedPositive(rs) ==
    IF rs = <<>> THEN <<>>
    ELSE (IF Head(rs) > 0 THEN <<Head(rs)>> ELSE <<>>)
             \o CollectedPositive(Tail(rs))

\* lines 166-167: the read results that are appended to keys
RECURSIVE Collected(_)
Collected(rs) ==
    IF rs = <<>> THEN <<>>
    ELSE (IF Head(rs) # NoKey THEN <<Head(rs)>> ELSE <<>>) \o Collected(Tail(rs))

----------------------------------------------------------------------------
(* The window title.  A path is the sequence of its characters. *)

\* os.sep
Sep == "/"

PathChars == {Sep, "h", "a"}

\* an absolute, normalised path: it starts at the root, no segment is empty
\* and only the root ends with the separator
IsAbsPath(p) ==
    /\ p # <<>>
    /\ p[1] = Sep
    /\ Len(p) > 1 => p[Len(p)] # Sep
    /\ \A i \in 1..(Len(p) - 1) : ~(p[i] = Sep /\ p[i + 1] = Sep)

PathsUpTo(n) ==
    { p \in UNION { [1..k -> PathChars] : k \in 1..n } : IsAbsPath(p) }

\* /home/alice/a/b/c/d and /home/alice
AlicePath ==
    <<"/", "h", "o", "m", "e", "/", "a", "l", "i", "c", "e",
      "/", "a", "/", "b", "/", "c", "/", "d">>
AliceHome == SubSeq(AlicePath, 1, 11)

\* the current paths and home paths of the title check
TitleEnvs ==
    { [cwd |-> c, home_path |-> h, draw_title |-> TRUE] :
        c \in PathsUpTo(MaxPathLen), h \in PathsUpTo(MaxHomeLen) }
      \cup { [cwd |-> AlicePath, home_path |-> AliceHome, draw_title |-> d] :
                d \in BOOLEAN }

\* the environment of the input checks, where nothing is drawn
env_init == [cwd |-> <<Sep>>, home_path |-> <<Sep, "h">>, draw_title |-> TRUE]

\* str.startswith
startswith(s, prefix) ==
    Len(prefix) <= Len(s) /\ SubSeq(s, 1, Len(prefix)) = prefix

\* s[n:]
slice_from(s, n) == SubSeq(s, n + 1, Len(s))

\* lines 210-211: the home path at the start of cwd becomes '~'
collapse_home(cwd, home_path) ==
    IF startswith(cwd, home_path)
    THEN <<"~">> \o slice_from(cwd, Len(home_path))
    ELSE cwd

\* the position of the last separator of s, 0 when it has none
RECURSIVE rfind(_, _)
rfind(s, i) == IF i = 0 \/ s[i] = Sep THEN i ELSE rfind(s, i - 1)

\* str.rsplit(os.sep, maxsplit): s is cut at its maxsplit rightmost
\* separators; the first element is what is left of them
RECURSIVE rsplit(_, _)
rsplit(s, maxsplit) ==
    LET i == rfind(s, Len(s))
    IN  IF maxsplit = 0 \/ i = 0
        THEN <<s>>
        ELSE Append(rsplit(SubSeq(s, 1, i - 1), maxsplit - 1),
                    SubSeq(s, i + 1, Len(s)))

\* os.sep.join(parts)
RECURSIVE join(_)
join(parts) ==
    IF parts = <<>> THEN <<>>
    ELSE IF Len(parts) = 1 THEN parts[1]
    ELSE parts[1] \o <<Sep>> \o join(Tail(parts))

\* a shortening that keeps the rightmost segments whatever is cut off
shorten_always(cwd, shorten_title) ==
    IF shorten_title # 0
    THEN join(Tail(rsplit(cwd, shorten_title)))
    ELSE cwd

\* lines 212-215: with a shorten depth, cwd is cut down to its rightmost
\* segments when what is cut off holds a separator
shorten(cwd, shorten_title) ==
    IF shorten_title # 0
    THEN LET split == rsplit(cwd, shorten_title)
         IN  IF \E i \in 1..Len(split[1]) : split[1][i] = Sep
             THEN join(Tail(split))
             ELSE cwd
    ELSE cwd

\* lines 209-215: the path draw() writes into the window title
title_path(cwd, home_path, shorten_title) ==
    shorten(collapse_home(cwd, home_path), shorten_title)

\* the segments of a path: what the separators delimit, the empty
\* strings apart
segments(p) == SelectSeq(rsplit(p, Len(p)), LAMBDA part : part # <<>>)

\* the number of separators of a path
separators(p) == Cardinality({ i \in 1..Len(p) : p[i] = Sep })

\* the n last elements of a sequence, all of them when it has fewer
rightmost(sq, n) ==
    IF Len(sq) <= n THEN sq ELSE SubSeq(sq, Len(sq) - n + 1, Len(sq))

----------------------------------------------------------------------------
(* The KeyBuffer *)

\* KeyBuffer.clear().  Of the buffer's contents the model keeps whether it
\* holds keys.  The flags failure, done and command are recomputed by every
\* key_append and read only in the handle_key call that made it: they are
\* the verdict m there.
kbuf_clear == [pending |-> FALSE]

Commands == {"none", "function", "no_function"}

\* env.key_append(key): the key joins the buffer
key_append(kb, key) == [pending |-> TRUE]

\* a router that offers the key to press() first and appends it to the
\* buffer only when press() did not consume it
append_unless_consumed(kb, key, press) ==
    IF press = "consumed" THEN kb ELSE key_append(kb, key)

\* line 130: handle_key appends the key before it calls press() at line
\* 132, whatever press() then answers
append_key(kb, key, press) == key_append(kb, key)

\* the verdicts the matcher may publish.  kbuf.done is read only at line
\* 153, after a resolved command: where it is not read, FALSE stands for
\* both values.
Verdicts ==
    { m \in [failure : BOOLEAN, done : BOOLEAN, command : Commands] :
        (m.failure \/ m.command = "none") => ~m.done }

\* the verdict is not read at all when press() consumed the key or raised
NoVerdict == [failure |-> FALSE, done |-> FALSE, command |-> "none"]

\* the answers of the widget tree's press() and of the matcher to one key
KeyAnswers ==
    { [press |-> p, m |-> NoVerdict] : p \in {"consumed", "raised"} }
        \cup { [press |-> "passed", m |-> v] : v \in Verdicts }

----------------------------------------------------------------------------
(* Observations *)

hi_none ==
    [path |-> "none", status |-> "none", entry_load_mode |-> FALSE,
     entry_queue |-> <<>>, reads |-> <<>>, delivered |-> <<>>,
     calls |-> 0, flushinput |-> FALSE]

\* what is kept of a handle_input call once it is left: how it was left,
\* the branch it took, the load mode it started with and the number of
\* handle_key calls it made
Left(h, how) ==
    [hi_none EXCEPT !.path = h.path, !.status = how,
                    !.entry_load_mode = h.entry_load_mode,
                    !.calls = Len(h.delivered) + (IF how = "raised" THEN 1 ELSE 0)]

hk_none ==
    [press |-> "none", failure |-> FALSE, done |-> FALSE,
     command |-> "none", executed |-> FALSE, raised |-> "none",
     hid_bookmarks |-> FALSE, notified |-> 0, cleared |-> FALSE,
     result |-> "none"]

\* what is seen of a handle_mouse() call: whether getmouse() raised, the
\* click() calls made and the event click() was given
hm_none == [called |-> FALSE, error |-> FALSE, clicks |-> 0, event |-> <<>>]

\* what is seen of a redraw() call: the calls it made, in order, the
\* position of its next phase, and the title it wrote
frame_none ==
    [log |-> <<>>, step |-> 1, titled |-> FALSE, title |-> <<>>,
     shorten_title |-> 0]

----------------------------------------------------------------------------
InitRest ==
    /\ ui = ui_init
    /\ curs_ok \in BOOLEAN
    /\ kbuf = kbuf_clear
    /\ pc = "idle"
    /\ keys = <<>>
    /\ idx = 1
    /\ lookahead = FALSE
    /\ previous_load_mode = FALSE
    /\ hi = hi_none
    /\ hk = hk_none
    /\ suspend_streak = 0
    /\ frame = frame_none
    /\ mouseq = <<>>
    /\ hm = hm_none

\* the user types a short stream
Init == queue \in Streams /\ env = env_init /\ InitRest

\* the user's input is the burst
InitBurst == queue = BurstStream /\ env = env_init /\ InitRest

\* nothing is typed yet
InitMouse == queue = <<>> /\ env = env_init /\ InitRest

\* nothing is typed; the current path and the home path are any of the
\* paths of the title check
InitRender == queue = <<>> /\ env \in TitleEnvs /\ InitRest

\* a call from the main loop ends what was observed of the previous calls
Forget ==
    /\ hi' = hi_none
    /\ hk' = hk_none
    /\ hm' = hm_none
    /\ UNCHANGED <<kbuf, pc, keys, idx, lookahead, previous_load_mode, curs_ok,
                   env, frame>>

\* an initialize() that puts nothing into the input queue
ungetmouse_nothing(q) == q

\* curses.ungetmouse(0,0,0,0,0), line 78: a KEY_MOUSE code is pushed back
\* onto the head of the input queue
ungetmouse(q) == <<KeyMouse>> \o q

\* the report (id, x, y, z, bstate) that line 78 hands to ungetmouse
ZeroEvent == <<0, 0, 0, 0, 0>>

\* the report of a click of the user: button 1 pressed at column 1, row 1
ClickEvents == { <<0, 1, 1, 0, 2>> }

\* curses.ungetmouse(0,0,0,0,0), line 78: the report that goes with the
\* pushed KEY_MOUSE is the next one getmouse() returns
ungetmouse_report(mq) == <<ZeroEvent>> \o mq

\* the callers' main loop, which calls set_load_mode() and handle_input(),
\* runs from the first initialize() until destroy()
MainLoopRuns == ui.initialize_calls >= 1 /\ ~ui.destroyed

Initialize ==
    /\ pc = "idle"
    /\ ui.initialize_calls < MaxInitCalls
    /\ \E show_cursor \in BOOLEAN : ui' = initialize(ui, show_cursor)
    /\ queue' = ungetmouse(queue)
    /\ mouseq' = ungetmouse_report(mouseq)
    /\ suspend_streak' = 0
    /\ Forget

Suspend ==
    /\ pc = "idle"
    /\ ui' = suspend(ui)
    /\ suspend_streak' = IF suspend_streak = 0 THEN 1 ELSE 2
    /\ UNCHANGED <<queue, mouseq>>
    /\ Forget

SetLoadMode ==
    /\ pc = "idle"
    /\ MainLoopRuns
    /\ \E boolean \in BOOLEAN : ui' = set_load_mode(ui, boolean)
    /\ suspend_streak' = 0
    /\ UNCHANGED <<queue, mouseq>>
    /\ Forget

Destroy ==
    /\ pc = "idle"
    /\ ~ui.destroyed
    /\ ui' = destroy(ui)
    /\ suspend_streak' = 0
    /\ UNCHANGED <<queue, mouseq>>
    /\ Forget

----------------------------------------------------------------------------
(* handle_input *)

\* lines 172-173: curses.flushinp() when settings.flushinput is set
flushinp(q, flushinput) == IF flushinput THEN <<>> ELSE q

\* an ordinary path that lets the zero code through (`if key >= 0`)
dispatches_nonnegative(key) == key >= 0

\* line 174: the ordinary path hands the key to handle_key
dispatches(key) == key > 0

\* lines 159-167 and 171-175: the first read and, after a lead code, the
\* forced load mode and the 8 probe reads; otherwise the optional flush
HandleInputBegin ==
    /\ pc = "idle"
    /\ MainLoopRuns
    /\ ReadReturns(ui, queue)
    /\ \E flushinput \in BOOLEAN :
       LET key == getch(queue)
           q1 == AfterRead(queue)
           h0 == [hi_none EXCEPT !.status = "running",
                                 !.entry_load_mode = ui.load_mode]
       IN  IF key \in LeadCodes
           THEN LET rs == ProbeReads(q1, Lookahead)
                IN  /\ previous_load_mode' = ui.load_mode
                    /\ ui' = enter_lookahead(ui)
                    /\ keys' = <<key>> \o Collected(rs)
                    /\ queue' = ProbeRest(q1, Lookahead)
                    /\ lookahead' = TRUE
                    /\ pc' = "replay"
                    /\ hi' = [h0 EXCEPT !.path = "lookahead",
                                        !.entry_queue = queue,
                                        !.reads = <<key>> \o rs]
           ELSE /\ queue' = flushinp(q1, flushinput)
                /\ lookahead' = FALSE
                /\ keys' = IF dispatches(key) THEN <<key>> ELSE <<>>
                /\ pc' = IF dispatches(key) THEN "replay" ELSE "idle"
                /\ hi' = [h0 EXCEPT !.path = "ordinary",
                                    !.reads = <<key>>,
                                    !.flushinput = flushinput,
                                    !.status = IF dispatches(key)
                                               THEN "running"
                                               ELSE "returned"]
                /\ UNCHANGED <<ui, previous_load_mode>>
    /\ idx' = 1
    /\ hk' = hk_none
    /\ suspend_streak' = 0
    /\ UNCHANGED <<curs_ok, kbuf, env, frame, mouseq, hm>>

\* handle_input is left, by return or by a propagating exception: its
\* locals are gone
Return ==
    /\ pc' = "idle"
    /\ keys' = <<>>
    /\ idx' = 1
    /\ lookahead' = FALSE
    /\ previous_load_mode' = FALSE

\* what a command function may do to the UI while it runs
CmdEffects ==
    {"none", "load_mode_on", "load_mode_off", "suspend", "initialize",
     "run_program", "destroy"}

Effect(u, e, show_cursor) ==
    CASE e = "none" -> u
      [] e = "load_mode_on" -> set_load_mode(u, TRUE)
      [] e = "load_mode_off" -> set_load_mode(u, FALSE)
      [] e = "suspend" -> suspend(u)
      [] e = "initialize" -> initialize(u, show_cursor)
      [] e = "run_program" -> initialize(suspend(u), show_cursor)
      [] e = "destroy" -> destroy(u)

Initializes(e) == e \in {"initialize", "run_program"}

\* how a call of cmd.function ends: it returns, raises an Exception, or
\* raises an error that is no Exception (KeyboardInterrupt, SystemExit)
CmdEnds == {"returns", "Exception", "BaseException"}

\* a command that is not run
NoRun == [e |-> "none", end |-> "returns", show_cursor |-> TRUE]

\* a router that looks at the command before it looks at kbuf.failure
runs_command_despite_failure(press, m) ==
    press = "passed" /\ m.command = "function"

\* lines 132-148: the command function is called when press() did not
\* consume the key, the buffer has not failed and a command with a function
\* is resolved
runs_command(press, m) ==
    press = "passed" /\ ~m.failure /\ m.command = "function"

\* what the call of cmd.function may do, line 150
CommandRuns(press, m) ==
    IF runs_command(press, m)
    THEN { r \in [e : CmdEffects, end : CmdEnds, show_cursor : BOOLEAN] :
             Initializes(r.e) \/ r.show_cursor }
    ELSE {NoRun}

\* lines 151-152: fm.notify(error) calls made by handle_key
notify_calls(press, m, run) ==
    IF runs_command(press, m) /\ run.end = "Exception" THEN 1 ELSE 0

\* an exception leaves handle_key: press() raised, or the command raised an
\* error that `except Exception` does not catch
escapes(press, m, run) ==
    press = "raised" \/ (runs_command(press, m) /\ run.end = "BaseException")

\* a router that clears the buffer after every command, done or not
clears_after_every_command(press, m, run) ==
    /\ press = "passed"
    /\ \/ m.failure
       \/ /\ ~m.failure
          /\ m.command # "none"
          /\ run.end # "BaseException"

\* a router that clears the buffer after a resolved command only when the
\* buffer is done, with or without a function
clears_only_when_done(press, m, run) ==
    /\ press = "passed"
    /\ \/ m.failure
       \/ /\ ~m.failure
          /\ m.command # "none"
          /\ run.end # "BaseException"
          /\ m.done

\* lines 140-142 and 153-156: kbuf.clear() is called
clears(press, m, run) ==
    /\ press = "passed"
    /\ \/ m.failure
       \/ /\ ~m.failure
          /\ m.command = "function"
          /\ run.end # "BaseException"
          /\ m.done
       \/ /\ ~m.failure
          /\ m.command = "no_function"

\* UI.handle_key(key), lines 124-156, for the answers press, m and run of
\* the widget tree, the matcher and the command: the state it leaves and
\* what it did
handle_key(u, q, kb, key, press, m, run) ==
    LET kb1 == append_key(kb, key, press)
        runs == runs_command(press, m)
        failed == press = "passed" /\ m.failure
        resolved == press = "passed" /\ ~m.failure /\ m.command # "none"
        \* line 153 reads kbuf.done after the command returned or was caught
        reads_done == resolved /\ ~escapes(press, m, run)
    IN  [ ui |-> IF runs THEN Effect(u, run.e, run.show_cursor) ELSE u,
          queue |-> IF runs /\ Initializes(run.e) THEN ungetmouse(q) ELSE q,
          pushes_report |-> runs /\ Initializes(run.e),
          kbuf |-> IF clears(press, m, run) THEN kbuf_clear ELSE kb1,
          escapes |-> escapes(press, m, run),
          hk |-> [press |-> press,
                  failure |-> failed,
                  done |-> reads_done /\ m.done,
                  command |-> IF failed \/ resolved THEN m.command ELSE "none",
                  hid_bookmarks |-> press = "passed",
                  executed |-> runs,
                  raised |-> IF runs THEN run.end ELSE "none",
                  notified |-> notify_calls(press, m, run),
                  cleared |-> clears(press, m, run),
                  result |-> IF escapes(press, m, run) THEN "raised"
                             ELSE "returned"] ]

\* line 169 / 175: handle_input calls handle_key on the next key
HandleKey ==
    /\ pc = "replay"
    /\ idx <= Len(keys)
    /\ \E a \in KeyAnswers :
        \E run \in CommandRuns(a.press, a.m) :
          LET r == handle_key(ui, queue, kbuf, keys[idx], a.press, a.m, run)
          IN  /\ Initializes(run.e) => ui.initialize_calls < MaxInitCalls
              /\ ui' = r.ui
              /\ queue' = r.queue
              /\ mouseq' = IF r.pushes_report THEN ungetmouse_report(mouseq)
                            ELSE mouseq
              /\ kbuf' = r.kbuf
              /\ hk' = r.hk
              /\ hi' = IF r.escapes
                       THEN Left(hi, "raised")
                       ELSE [hi EXCEPT !.delivered = Append(@, keys[idx])]
              /\ IF r.escapes
                 THEN Return
                 ELSE /\ pc' = "replay"
                      /\ idx' = idx + 1
                      /\ UNCHANGED <<keys, lookahead, previous_load_mode>>
    /\ suspend_streak' = 0
    /\ UNCHANGED <<curs_ok, env, frame, hm>>

\* line 170: the load mode is put back; the ordinary branch just returns
HandleInputEnd ==
    /\ pc = "replay"
    /\ idx > Len(keys)
    /\ ui' = IF lookahead THEN leave_lookahead(ui, previous_load_mode) ELSE ui
    /\ hi' = Left(hi, "returned")
    /\ hk' = hk_none
    /\ Return
    /\ suspend_streak' = 0
    /\ UNCHANGED <<curs_ok, queue, kbuf, env, frame, mouseq, hm>>

----------------------------------------------------------------------------
(* redraw *)

\* a redraw() that draws before it pokes
redraw_draw_first == <<"draw", "poke", "finalize">>

\* lines 185-187: the phases of redraw(), in the order of its calls
redraw_order == <<"poke", "draw", "finalize">>

\* win.refresh(): the physical display is updated, which also ends the
\* endwin() state
refresh(u) == [u EXCEPT !.endwin = FALSE]

\* a draw() that leaves the refresh to finalize()
draw_calls_unrefreshed(titled) ==
    <<"touchwin", "draw">> \o (IF titled THEN <<"title">> ELSE <<>>)

\* lines 206-217: the calls of UI.draw, the title written only when the
\* terminal has one and settings.update_title is set
draw_calls(titled) ==
    <<"touchwin", "draw">> \o (IF titled THEN <<"title">> ELSE <<>>)
        \o <<"refresh">>

\* lines 221-222: the calls of UI.finalize
finalize_calls == <<"finalize", "refresh">>

\* redraw() is at the call of the given phase: the main loop calls
\* redraw() and its first phase is this one, or redraw() has come to it
AtPhase(name) ==
    \/ pc = "idle" /\ MainLoopRuns /\ redraw_order[1] = name
    \/ pc = "redraw" /\ redraw_order[frame.step] = name

\* the frame so far
FrameSoFar == IF pc = "idle" THEN frame_none ELSE frame

\* the phase has returned: redraw() goes on to the next one, or returns
PhaseDone ==
    /\ pc' = IF FrameSoFar.step = Len(redraw_order) THEN "idle" ELSE "redraw"
    /\ hi' = hi_none
    /\ hk' = hk_none
    /\ suspend_streak' = 0
    /\ UNCHANGED <<curs_ok, queue, kbuf, keys, idx, lookahead,
                   previous_load_mode, env, mouseq, hm>>

\* line 185: self.poke()
RedrawPoke ==
    /\ AtPhase("poke")
    /\ frame' = [FrameSoFar EXCEPT !.log = @ \o <<"poke">>, !.step = @ + 1]
    /\ UNCHANGED ui
    /\ PhaseDone

\* line 186: self.draw(), for the values of settings.update_title and
\* settings.shorten_title at the call
RedrawDraw ==
    /\ AtPhase("draw")
    /\ \E update_title \in BOOLEAN, shorten_title \in 0..MaxDepth :
         LET titled == env.draw_title /\ update_title
         IN  /\ titled \/ shorten_title = 0
             /\ frame' =
                  [FrameSoFar EXCEPT
                     !.log = @ \o draw_calls(titled),
                     !.step = @ + 1,
                     !.titled = titled,
                     !.shorten_title = shorten_title,
                     !.title = IF titled
                               THEN title_path(env.cwd, env.home_path,
                                               shorten_title)
                               ELSE <<>>]
    /\ ui' = refresh(ui)
    /\ PhaseDone

\* line 187: self.finalize()
RedrawFinalize ==
    /\ AtPhase("finalize")
    /\ frame' = [FrameSoFar EXCEPT !.log = @ \o finalize_calls, !.step = @ + 1]
    /\ ui' = refresh(ui)
    /\ PhaseDone

----------------------------------------------------------------------------
(* The mouse *)

\* the user clicks: the device queues the report and the KEY_MOUSE code
\* that announces it.  The codes stay in the input queue, one for each
\* initialize() and one for each click, which counts the clicks made.
Click ==
    /\ pc = "idle"
    /\ Len(queue) - ui.initialize_calls < MaxClicks
    /\ \E e \in ClickEvents : mouseq' = Append(mouseq, e)
    /\ queue' = Append(queue, KeyMouse)
    /\ UNCHANGED <<ui, curs_ok, kbuf, pc, keys, idx, lookahead,
                   previous_load_mode, hi, hk, suspend_streak, env, frame, hm>>

\* a handle_mouse() that hands click() an empty event when no report can
\* be read
handle_mouse_clicks_anyway(mq) ==
    IF mq = <<>>
    THEN [mouseq |-> mq, error |-> TRUE, clicks |-> 1, event |-> <<>>]
    ELSE [mouseq |-> Tail(mq), error |-> FALSE, clicks |-> 1, event |-> Head(mq)]

\* UI.handle_mouse, lines 117-122: curses.getmouse() raises _curses.error
\* when it has no report to return, and handle_mouse returns; otherwise
\* the report is taken and click() is called with its event
handle_mouse(mq) ==
    IF mq = <<>>
    THEN [mouseq |-> mq, error |-> TRUE, clicks |-> 0, event |-> <<>>]
    ELSE [mouseq |-> Tail(mq), error |-> FALSE, clicks |-> 1, event |-> Head(mq)]

HandleMouse ==
    /\ pc = "idle"
    /\ MainLoopRuns
    /\ LET r == handle_mouse(mouseq)
       IN  /\ mouseq' = r.mouseq
           /\ hm' = [called |-> TRUE, error |-> r.error, clicks |-> r.clicks,
                      event |-> r.event]
    /\ hi' = hi_none
    /\ hk' = hk_none
    /\ suspend_streak' = 0
    /\ UNCHANGED <<ui, curs_ok, queue, kbuf, pc, keys, idx, lookahead,
                   previous_load_mode, env, frame>>

----------------------------------------------------------------------------
Next ==
    \/ Initialize
    \/ Suspend
    \/ SetLoadMode
    \/ Destroy
    \/ HandleInputBegin
    \/ HandleKey
    \/ HandleInputEnd

Spec == Init /\ [][Next]_vars

SpecBurst == InitBurst /\ [][Next]_vars

\* the render cycle over the sessions the main loop draws in
NextRender ==
    \/ Initialize
    \/ Suspend
    \/ RedrawPoke
    \/ RedrawDraw
    \/ RedrawFinalize

SpecRender == InitRender /\ [][NextRender]_vars

\* the mouse over the sessions the main loop runs in
NextMouse ==
    \/ Initialize
    \/ Suspend
    \/ Click
    \/ HandleMouse

SpecMouse == InitMouse /\ [][NextMouse]_vars

----------------------------------------------------------------------------
(* The claims *)

\* C1: when handle_input() took the lookahead branch and returned, the
\* load_mode flag is what it was when handle_input() was entered, whatever
\* the commands run by the replay did.
C1_LoadModePairing ==
    (hi.path = "lookahead" /\ hi.status = "returned")
        => ui.load_mode = hi.entry_load_mode

\* C1 witness: a lookahead call entered with load mode off has returned,
\* and a command it dispatched destroyed the UI on the way.
C1_Witness ==
    /\ hi.path = "lookahead"
    /\ hi.status = "returned"
    /\ ~hi.entry_load_mode
    /\ ~ui.load_mode
    /\ ui.destroyed

\* C2: from destroy() to the next initialize() the terminal is in cooked
\* mode with echo on.
C2_CookedAfterDestroy == ui.destroyed => (ui.mode = "cooked" /\ ui.echo)

\* C3: a handle_input() call that took the lookahead branch with load mode
\* off on entry leaves load mode off, whether it returns or an exception
\* propagates out of it.
C3_NoLoadModeLeak ==
    (hi.path = "lookahead" /\ hi.status \in {"returned", "raised"}
        /\ ~hi.entry_load_mode)
        => ~ui.load_mode

\* the read results that are not the no-key sentinel, in read order
NotSentinel(rs) == SelectSeq(rs, LAMBDA r : r # -1)

\* the result of the i-th read of a call that found queue q
ReadOf(q, i) == IF i <= Len(q) THEN q[i] ELSE -1

\* C4: after a lead code, handle_input() makes 8 more reads, and the keys
\* it hands to handle_key() are the lead code followed by the read results
\* that are not -1, in read order: the calls made so far are a prefix of
\* that sequence, and all of it once the replay loop has ended.
C4_ReplayDeliversWhatWasRead ==
    (hi.path = "lookahead" /\ hi.status = "running") =>
        LET expected == <<Head(hi.reads)>> \o NotSentinel(Tail(hi.reads))
        IN  /\ Len(hi.reads) = 9
            /\ \A i \in 1..9 : hi.reads[i] = ReadOf(hi.entry_queue, i)
            /\ Len(hi.delivered) <= Len(expected)
            /\ hi.delivered = SubSeq(expected, 1, Len(hi.delivered))
            /\ idx = Len(hi.delivered) + 1
            /\ idx > Len(keys) => hi.delivered = expected

\* C4 witness: Escape and 'x' were both available, and the replay has
\* delivered Escape, then 'x'.
C4_Witness ==
    /\ hi.path = "lookahead"
    /\ hi.entry_queue = <<27, 120>>
    /\ hi.delivered = <<27, 120>>
    /\ pc = "replay"
    /\ idx > Len(keys)

\* C5: one handle_input() call makes at most 9 reads and at most 9
\* handle_key() calls; of a lead code followed by Burst available codes the
\* first 8 are collected and replayed and the others stay in the queue.
C5_BoundedLookahead ==
    /\ Len(hi.reads) <= 9
    /\ Len(hi.delivered) <= 9
    /\ hi.calls <= 9
    /\ (hi.status = "running" /\ hi.entry_queue = BurstStream) =>
          /\ keys = SubSeq(BurstStream, 1, 9)
          /\ Len(queue) >= Burst - 8
          /\ SubSeq(queue, Len(queue) - (Burst - 8) + 1, Len(queue))
                = SubSeq(BurstStream, 10, Burst + 1)
          /\ idx = 1 => queue = SubSeq(BurstStream, 10, Burst + 1)

\* C5 witness: the burst was read and its first 9 codes have been replayed.
C5_Witness ==
    /\ hi.entry_queue = BurstStream
    /\ pc = "replay"
    /\ idx > Len(keys)
    /\ Len(hi.delivered) = 9
    /\ Len(queue) >= Burst - 8

\* C6, as claimed: when the prior load mode was off, every handle_key() call
\* of the replay starts with load mode off.
C6_RestoredBeforeReplay ==
    (pc = "replay" /\ lookahead /\ idx <= Len(keys) /\ ~previous_load_mode)
        => (~ui.load_mode /\ ~ui.nodelay)

\* C6, amended: the first handle_key() call of the replay starts with load
\* mode on and non-blocking reads; during the replay only a command run by
\* handle_key() changes the load mode; handle_input() puts the prior load
\* mode back when it returns, after the last key was delivered.
C6_RestoredAfterReplay ==
    [][ /\ (pc' = "replay" /\ lookahead' /\ idx' = 1)
            => (ui'.load_mode /\ ui'.nodelay)
        /\ (pc = "replay" /\ pc' = "replay" /\ ui'.load_mode # ui.load_mode)
            => hk'.executed
        /\ (pc = "replay" /\ lookahead /\ hi'.status = "returned")
            => (idx > Len(keys) /\ ui'.load_mode = previous_load_mode) ]_vars

\* C6 witness: the prior load mode was off, one key has been replayed and
\* the second is about to be, with load mode still on.
C6_Witness ==
    /\ pc = "replay"
    /\ lookahead
    /\ ~previous_load_mode
    /\ idx = 2
    /\ idx <= Len(keys)
    /\ ui.load_mode

\* C7: when the command function run by handle_key() raises an Exception,
\* handle_key() returns normally, fm.notify is called exactly once, and the
\* KeyBuffer is cleared if and only if its done flag is true.
C7_CommandExceptionIsolated ==
    (hk.executed /\ hk.raised = "Exception") =>
        /\ hk.result = "returned"
        /\ pc = "replay"
        /\ hk.notified = 1
        /\ hk.cleared <=> hk.done
        /\ kbuf.pending <=> ~hk.done

\* C7 witness: a command raised an Exception while the buffer was not done,
\* and the buffer still holds its keys.
C7_Witness ==
    /\ hk.executed
    /\ hk.raised = "Exception"
    /\ ~hk.done
    /\ kbuf.pending
    /\ hk.notified = 1

\* C8: when press() does not consume the key and the KeyBuffer reports
\* failure, the KeyBuffer is cleared, no command function is run and
\* nothing is sent to fm.notify, also when a command is resolved.
C8_FailedBufferCleared ==
    (hk.press = "passed" /\ hk.failure) =>
        /\ hk.cleared
        /\ kbuf = kbuf_clear
        /\ ~hk.executed
        /\ hk.notified = 0
        /\ hk.result = "returned"

\* C8 witness: the buffer failed while it exposed a command with a function.
C8_Witness ==
    /\ hk.press = "passed"
    /\ hk.failure
    /\ hk.command = "function"
    /\ ~kbuf.pending

\* C9: setup() has run exactly once as soon as initialize() was called, and
\* the latch is_set_up is false before the first initialize() and true ever
\* after.
C9_SetupOnce ==
    /\ ui.is_set_up <=> ui.initialize_calls >= 1
    /\ ui.setup_calls = IF ui.initialize_calls >= 1 THEN 1 ELSE 0

\* C9 witness: initialize() was called twice, with a suspend() in between.
C9_Witness ==
    /\ ui.initialize_calls >= 2
    /\ ui.endwin
    /\ ui.setup_calls = 1

\* C10: a suspend() that follows a suspend() leaves the terminal mode as
\* it found it.
C10_SuspendIdempotent ==
    [][ (suspend_streak >= 1 /\ suspend_streak' = 2)
            => TermMode(ui') = TermMode(ui) ]_vars

\* C10 witness: suspend() was called twice in a row.
C10_Witness == suspend_streak = 2 /\ ui.mode = "cooked"

\* C11, as claimed: a handle_key() call in which press() consumes the key
\* leaves the KeyBuffer exactly as it found it, does not call
\* hide_bookmarks and runs no command.
C11_ConsumedKeyLeavesBuffer ==
    [][ (pc = "replay" /\ idx <= Len(keys) /\ hk'.press = "consumed")
            => (kbuf' = kbuf /\ ~hk'.hid_bookmarks /\ ~hk'.executed) ]_vars

\* C11, amended: handle_key() appends the key to the KeyBuffer before it
\* offers it to press(), consumed or not; when press() consumes the key,
\* handle_key() does nothing more: the buffer is the buffer before the
\* call with the key appended and is not cleared, hide_bookmarks is not
\* called, no command is run, nothing is notified and the UI is untouched.
C11_ConsumedKeyStopsRouting ==
    [][ /\ (pc = "replay" /\ idx <= Len(keys) /\ hk'.press = "consumed")
            => /\ kbuf' = key_append(kbuf, keys[idx])
               /\ ~hk'.cleared
               /\ ~hk'.hid_bookmarks
               /\ ~hk'.executed
               /\ hk'.notified = 0
               /\ hk'.result = "returned"
               /\ ui' = ui
               /\ queue' = queue
        /\ (pc = "replay" /\ idx <= Len(keys) /\ ~hk'.cleared)
            => kbuf' = key_append(kbuf, keys[idx]) ]_vars

\* C11 witness: the first key of a handle_input() call was consumed by the
\* widget tree, and the KeyBuffer holds it.
C11_Witness ==
    /\ pc = "replay"
    /\ hk.press = "consumed"
    /\ hi.delivered = <<120>>
    /\ kbuf.pending
    /\ ~hk.hid_bookmarks

\* C12, as claimed: after a key that is not consumed, with no failure and a
\* resolved command, the KeyBuffer is cleared at the end of handle_key() if
\* and only if its done flag is true, whether or not the command carries a
\* function.
C12_ClearedOnlyOnDone ==
    (hk.press = "passed" /\ ~hk.failure /\ hk.command # "none"
        /\ hk.result = "returned")
        => (hk.cleared <=> hk.done)

\* C12, amended: after a key that is not consumed, with no failure and a
\* resolved command, a handle_key() call that returns has cleared the
\* KeyBuffer if and only if the command carries no function or the done
\* flag is true; a call left by an error of the command that is not an
\* Exception has not cleared it.
C12_ClearedOnDoneOrNoFunction ==
    (hk.press = "passed" /\ ~hk.failure /\ hk.command # "none") =>
        /\ hk.result = "returned" =>
              (hk.cleared <=> (hk.command = "no_function" \/ hk.done))
        /\ hk.result = "raised" => ~hk.cleared
        /\ kbuf.pending <=> ~hk.cleared

\* C12 witness: a command without a function was resolved while the buffer
\* was not done, and the buffer was cleared.
C12_Witness ==
    /\ hk.press = "passed"
    /\ hk.command = "no_function"
    /\ ~hk.done
    /\ hk.cleared
    /\ kbuf = kbuf_clear

\* the title of the last draw() is the title of /home/alice/a/b/c/d with
\* home /home/alice and depth 2, which is c/d
AliceTitled ==
    (frame.titled /\ env.cwd = AlicePath /\ env.home_path = AliceHome
        /\ frame.shorten_title = 2)
        => frame.title = <<"c", Sep, "d">>

\* C13, as claimed: with a shorten depth N >= 1, the title path that draw()
\* computes has at most N segments, and they are the rightmost segments of
\* the path with its home prefix collapsed.
C13_TitleAtMostNSegments ==
    (frame.titled /\ frame.shorten_title >= 1) =>
        LET c == collapse_home(env.cwd, env.home_path)
            n == frame.shorten_title
        IN  /\ Len(segments(frame.title)) <= n
            /\ segments(frame.title) = rightmost(segments(c), n)
            /\ AliceTitled

\* C13, amended: with a shorten depth N >= 1, the title path is the N
\* rightmost segments of the collapsed path when that path has more than
\* N separators, and the collapsed path itself when it has N or fewer; so
\* it has at most N segments, except for a collapsed path that does not
\* start with the separator and has exactly N of them ('~' and N
\* segments), which is left whole with N + 1 segments.
C13_TitleRightmostSegments ==
    (frame.titled /\ frame.shorten_title >= 1) =>
        LET c == collapse_home(env.cwd, env.home_path)
            n == frame.shorten_title
            t == frame.title
        IN  /\ separators(c) > n =>
                  /\ t = join(rightmost(rsplit(c, Len(c)), n))
                  /\ Len(segments(t)) = n
                  /\ segments(t) = rightmost(segments(c), n)
            /\ separators(c) <= n => t = c
            /\ Len(segments(t)) <= n + 1
            /\ Len(segments(t)) = n + 1 =>
                  (t = c /\ c[1] # Sep /\ separators(c) = n)
            /\ AliceTitled

\* C13 witness: the current path /h/a/a under the home /h was drawn with
\* depth 2, and the title is ~/a/a.
C13_Witness ==
    /\ frame.titled
    /\ frame.shorten_title = 2
    /\ env.cwd = <<Sep, "h", Sep, "a", Sep, "a">>
    /\ env.home_path = <<Sep, "h">>
    /\ frame.title = <<"~", Sep, "a", Sep, "a">>

\* a step in which initialize() runs
InitializeRuns == ui'.initialize_calls = ui.initialize_calls + 1

\* a step that is a handle_mouse() call
HandleMouseRuns == pc = "idle" /\ hm'.called /\ queue' = queue

\* C14, as claimed: initialize() takes one report off the queue of pending
\* mouse reports (none when it is empty) and puts no mouse event into the
\* input queue, so that every report handle_mouse() reads comes from a
\* click of the user.
C14_InitializeDiscardsOne ==
    [][ /\ InitializeRuns =>
              /\ mouseq' = (IF mouseq = <<>> THEN <<>> ELSE Tail(mouseq))
              /\ queue' = queue
        /\ (HandleMouseRuns /\ hm'.clicks = 1) => hm'.event \in ClickEvents
      ]_vars

\* C14, amended: initialize() discards no mouse report: it puts one
\* report, the all-zero one, at the head of the pending reports and the
\* KEY_MOUSE code at the head of the input queue; the reports of the
\* user's clicks stay queued behind it, and a handle_mouse() call that
\* finds it at the head hands it to click().
C14_InitializePushesOne ==
    [][ /\ InitializeRuns =>
              /\ mouseq' = <<ZeroEvent>> \o mouseq
              /\ Len(mouseq') = Len(mouseq) + 1
              /\ queue' = <<KeyMouse>> \o queue
        /\ (HandleMouseRuns /\ mouseq # <<>> /\ Head(mouseq) = ZeroEvent) =>
              /\ hm'.clicks = 1
              /\ hm'.event = ZeroEvent
              /\ mouseq' = Tail(mouseq)
      ]_vars

\* C14 witness: after a click and a suspend/initialize cycle the all-zero
\* report is ahead of the click's report, and KEY_MOUSE heads the input.
C14_Witness ==
    /\ ui.initialize_calls = 2
    /\ ui.endwin
    /\ ui.keypad
    /\ Len(mouseq) >= 2
    /\ Head(mouseq) = ZeroEvent
    /\ mouseq[Len(mouseq)] \in ClickEvents
    /\ Head(queue) = KeyMouse

\* the calls a redraw() has made once its first k phases have run
CallsAfter(k, titled) ==
    (IF k >= 1 THEN <<"poke">> ELSE <<>>)
        \o (IF k >= 2
            THEN <<"touchwin", "draw">>
                     \o (IF titled THEN <<"title">> ELSE <<>>)
                     \o <<"refresh">>
            ELSE <<>>)
        \o (IF k >= 3 THEN <<"finalize", "refresh">> ELSE <<>>)

\* the phases of redraw() that have run
PhasesRun ==
    IF pc = "redraw" THEN frame.step - 1
    ELSE IF frame.log = <<>> THEN 0 ELSE 3

\* C15: a redraw() call runs poke, then draw, then finalize, once each:
\* while it runs, one or two phases are done, in that order, and when it
\* has returned all three are; the display is refreshed as the last call
\* of draw and again as the last call of finalize.
C15_RenderPhaseOrder ==
    /\ pc = "redraw" => PhasesRun \in {1, 2}
    /\ frame.log = CallsAfter(PhasesRun, frame.titled)
    /\ SelectSeq(frame.log, LAMBDA c : c \in {"poke", "draw", "finalize"})
          = SubSeq(<<"poke", "draw", "finalize">>, 1, PhasesRun)
    /\ Len(SelectSeq(frame.log, LAMBDA c : c = "refresh"))
          = (IF PhasesRun >= 2 THEN PhasesRun - 1 ELSE 0)
    /\ PhasesRun >= 2 => frame.log[Len(frame.log)] = "refresh"

\* C15 witness: a redraw() that wrote the title has returned, and the
\* display it refreshed is out of the endwin() state.
C15_Witness ==
    /\ pc = "idle"
    /\ frame.titled
    /\ frame.log = <<"poke", "touchwin", "draw", "title", "refresh",
                     "finalize", "refresh">>
    /\ ~ui.endwin
    /\ ui.initialize_calls = 2

\* C16: a handle_mouse() call that cannot read a mouse report returns, does
\* not call click() and changes nothing; a call that reads a report calls
\* click() once, with the event of that report.
C16_MouseErrorDropped ==
    [][ HandleMouseRuns =>
          /\ pc' = "idle"
          /\ hm'.error <=> mouseq = <<>>
          /\ hm'.error =>
                /\ hm'.clicks = 0
                /\ hm'.event = <<>>
                /\ <<ui, queue, mouseq, kbuf>>' = <<ui, queue, mouseq, kbuf>>
          /\ ~hm'.error =>
                /\ hm'.clicks = 1
                /\ hm'.event = Head(mouseq)
                /\ mouseq' = Tail(mouseq)
                /\ <<ui, queue, kbuf>>' = <<ui, queue, kbuf>> ]_vars

\* C16 witness: handle_mouse() found no report after an earlier call had
\* taken the only one, and made no click() call.
C16_Witness ==
    /\ hm.called
    /\ hm.error
    /\ hm.clicks = 0
    /\ mouseq = <<>>
    /\ ui.initialize_calls >= 1
    /\ Len(queue) >= 2

\* C17: when the first code handle_input() reads is neither 27 nor 195, it
\* reads nothing more and does not touch the load mode or the terminal;
\* with the flushinput setting the queued input is flushed, and then
\* handle_key() is called once with the code if the code is > 0, and not
\* at all if it is zero or negative.
C17_OrdinaryPath ==
    [][ /\ (pc = "idle" /\ hi'.path = "ordinary") =>
              LET key == getch(queue)
              IN  /\ key \notin LeadCodes
                  /\ hi'.reads = <<key>>
                  /\ ui' = ui
                  /\ queue' = (IF hi'.flushinput THEN <<>> ELSE AfterRead(queue))
                  /\ key > 0 => (pc' = "replay" /\ keys' = <<key>> /\ idx' = 1
                                  /\ hi'.delivered = <<>>)
                  /\ key <= 0 => (pc' = "idle" /\ hi'.status = "returned"
                                   /\ hi'.calls = 0 /\ hk' = hk_none
                                   /\ kbuf' = kbuf)
        /\ (pc = "replay" /\ hi.path = "ordinary" /\ idx <= Len(keys)) =>
              /\ idx = 1
              /\ keys = hi.reads
              /\ hk'.press # "none"
              /\ hi'.status = "running" => hi'.delivered = keys
        /\ (pc = "replay" /\ hi.path = "ordinary" /\ idx > Len(keys)) =>
              /\ hi.delivered = hi.reads
              /\ hi'.status = "returned"
              /\ hi'.calls = 1
              /\ ui' = ui
              /\ queue' = queue ]_vars

\* C17 witness: with flushinput set, 'x' was read and handed to
\* handle_key(), and the input queue is empty.
C17_Witness ==
    /\ hi.path = "ordinary"
    /\ hi.flushinput
    /\ hi.reads = <<120>>
    /\ hi.delivered = <<120>>
    /\ hk.press = "passed"
    /\ queue = <<>>
    /\ pc = "replay"

\* C18: while the session is active, the load_mode flag is true if and
\* only if the window is in nodelay mode, and reads time out rather than
\* return at once whenever load_mode is false.
C18_LoadModeIffNodelay ==
    Active(ui) =>
        /\ ui.load_mode <=> ui.nodelay
        /\ ~ui.load_mode => ReadMode(ui) = "timeout"

\* C19, as claimed: every code handle_input() hands to handle_key() is
\* strictly positive.
C19_OnlyPositiveDispatched ==
    /\ \A i \in 1..Len(hi.delivered) : hi.delivered[i] > 0
    /\ pc = "replay" => \A i \in 1..Len(keys) : keys[i] > 0

\* C19, amended: no code handed to handle_key() is the sentinel -1; on the
\* ordinary path the code is strictly positive; in the replay the first
\* code is the lead code 27 or 195 and the others are the codes read that
\* are not -1, the zero code among them.
C19_NoSentinelDispatched ==
    /\ \A i \in 1..Len(hi.delivered) : hi.delivered[i] >= 0
    /\ pc = "replay" =>
          /\ \A i \in 1..Len(keys) : keys[i] # NoKey /\ keys[i] >= 0
          /\ hi.delivered = SubSeq(keys, 1, idx - 1)
          /\ ~lookahead => (Len(keys) = 1 /\ keys[1] > 0)
          /\ lookahead =>
                /\ keys[1] \in LeadCodes
                /\ Tail(keys) = NotSentinel(Tail(hi.reads))

\* C19 witness: Escape and the zero code were read, and the replay has
\* handed both to handle_key().
C19_Witness ==
    /\ pc = "replay"
    /\ lookahead
    /\ hi.delivered = <<27, 0>>
    /\ hk.press # "none"

====
